---- MODULE Spec2Model ----
(***************************************************************************)
(* A model of the robomaster SDK's connection orchestration                *)
(* (sdk2/internal/manager Connection) and of the unity Result value         *)
(* object (unity/result).                                                   *)
(*                                                                          *)
(* Connection: one caller goroutine runs Start and Stop, one native         *)
(* goroutine delivers the connection-status callbacks one after the other,  *)
(* one goroutine polls Connected().  Every step between two                 *)
(* synchronisation points of the Go code is one action.  The bridge and the *)
(* finder are collaborators: each call into them succeeds or fails, and the *)
(* bridge delivers any status value at any time a listener is registered.   *)
(***************************************************************************)
EXTENDS Integers, Sequences, FiniteSets, TLC

\* --------------------------------------------------------------- bounds
\* Number of Start/Stop calls the caller goroutine makes.
MaxCalls == 2
\* Number of connection-status callbacks the bridge delivers.
MaxDeliveries == 3
\* Number of wake-ups of the condition variable by a third party.
MaxSpurious == 1
\* The Add/RemoveVideoCallback calls made on the Camera.
MaxCameraCalls == 3
\* The video frames the bridge hands to onVideoDataRecv.
MaxFrames == 1
\* The Gun.Fire calls made.
MaxFires == 2
\* The Camera.Start and Video.Start calls made.
MaxStarts == 2

VARIABLES
  \* Connection (part_000:23-34)
  m,                      \* cm.m: the goroutine holding the mutex, or "none"
  connected,              \* cm.connected
  connectionStatusToken,  \* cm.connectionStatusToken (0: zero value)
  \* the bridge's listener table for key.KeyAirLinkConnection
  listeners,              \* tokens currently registered
  nextToken,              \* next token the bridge hands out
  \* the caller goroutine
  op,                     \* "none", "Start" or "Stop"
  pc,                     \* its position
  current,                \* waitForConnectionStatusChange's local
  ret,                    \* "none", "nil" or "err": what the call returned
  \* the native callback goroutine (connectionStatusChanged)
  cbPc, cbVal,
  \* the goroutine calling Connected()
  rdPc,
  \* history of the call in progress
  stageLog,               \* <<kind, subType, ok>> of every stage run, in order
  regToken,               \* token this Start call registered (0: none)
  removed,                \* this Stop call removed its listener
  waitEntry,              \* cm.connected when the wait was called
  waitExit,               \* cm.connected when the wait loop ended
  sawTrue,                \* the listener wrote true since the wait was called
  futile,                 \* the waiter was woken with connected = current
  transSince,             \* writes of cm.connected since the last open/close send
  delivSince,             \* callbacks delivered since the last open/close send
  nCalls, nDeliv, nSpurious,
  \* unity/result
  res,                    \* the Result under test
  built,                  \* whether a constructor has made it yet
  input,                  \* the jsonData res is the untouched decoding of
  \* example: callbackHandler
  handled,                \* the last callbackHandler call: tag in, fields out
  \* unitybridge/wrapper: dlOpenUnityBridgeImpl
  native,                 \* event code -> the native layer holds the trampoline
  registry,               \* d.m: event code -> handler, "nil" for none
  setting,                \* the SetEventCallback call in progress, or NoCall
  lastSet,                \* event code -> callback of the last call returned
  regetted,               \* Get ran after a SetEventCallback call
  \* sdk2: Client
  started,                \* c.started
  up,                     \* component -> its Start succeeded and no Stop since
  clientPc,               \* the step the Client call in progress is at
  clientOp,               \* the last Client call: "Start", "Stop" or "none"
  clientCalls,            \* the calls that call made on bridge and modules
  clientRet,              \* what it returned
  wasStarted,             \* c.started when it was entered
  everStarted,            \* some Client.Start returned nil
  \* sdk2/internal/manager: Video.SetVideoResolution
  vPc,                    \* where the call is: "idle", "set", "wait", "returned"
  resolutionID,           \* its argument
  wg,                     \* the WaitGroup counter
  vErr,                   \* the local err the completion callback writes
  vRet,                   \* what the call returned
  completion,             \* the callback: "none", "pending", "dropped", "invoked"
  delivered,              \* the Result the callback was invoked with
  \* module/camera: Camera
  callbacks,              \* c.callbacks: token -> video callback
  tg,                     \* c.tg: the last token generated
  camLog,                 \* one entry per Add/RemoveVideoCallback call returned
  readers,                \* c.m: the goroutines holding the read lock
  dispatch,               \* the frame onVideoDataRecv is handling, or NoDispatch
  frames,                 \* per frame received: the table seen, the tokens visited
  invoked,                \* <<frame, token>> -> times `go vc(rgb)` ran for it
  pending,                \* <<frame, token>> -> what that callback goroutine does
  \* module/camera: Camera.glTextureData
  glTextureData,          \* c.glTextureData: NilPointer or the value pointed to
  glEvent,                \* the data of the last GetNativeTexture event
  glRet,                  \* what the last GLTextureData call did
  \* sdk2/module/gun: Gun
  nFires,                 \* the Fire calls made
  firing,                 \* the Fire call in progress (0: none) before its send
  offPc,                  \* call -> its switch-off goroutine: where it is
  gunLog,                 \* the sends made: <<call, key, value, ok>>
  gunRet,                 \* call -> what Fire returned
  \* module/camera Camera.Start, sdk2/internal/manager Video.Start
  evRegistry,             \* the bridge: the <<event type, token>> listeners
  evNext,                 \* the bridge: the last listener token issued
  evTokens,               \* module -> event type -> its gnt/vts/vdrToken field
  starting,               \* <<module, step>> of the Start in progress
  addedByCall,            \* the listeners the last Start call registered
  startRet,               \* what the last Start call returned
  nStarts                 \* the Start calls made

connVars == <<m, connected, connectionStatusToken, listeners, nextToken,
              op, pc, current, ret, cbPc, cbVal, rdPc>>
histVars == <<stageLog, regToken, removed, waitEntry, waitExit, sawTrue,
              futile, transSince, delivSince, nCalls, nDeliv, nSpurious>>
resVars == <<res, built, input>>
tagVars == <<handled>>
regVars == <<native, registry, setting, lastSet, regetted>>
clientVars == <<started, up, clientPc, clientOp, clientCalls, clientRet,
                wasStarted, everStarted>>
videoVars == <<vPc, resolutionID, wg, vErr, vRet, completion, delivered>>
cameraVars == <<callbacks, tg, camLog, readers, dispatch, frames, invoked,
                pending>>
textureVars == <<glTextureData, glEvent, glRet>>
gunVars == <<nFires, firing, offPc, gunLog, gunRet>>
startVars == <<evRegistry, evNext, evTokens, starting, addedByCall, startRet,
               nStarts>>
vars == <<connVars, histVars, resVars, tagVars,
          regVars, clientVars, videoVars, cameraVars,
          textureVars, gunVars, startVars>>

\* What the actions of one component leave alone.
connRest == <<resVars, tagVars, regVars, clientVars,
              videoVars, cameraVars, textureVars, gunVars,
              startVars>>
resultRest == <<connVars, histVars, tagVars, regVars,
                clientVars, videoVars, cameraVars, textureVars,
                gunVars, startVars>>
tagRest == <<connVars, histVars, resVars, regVars,
             clientVars, videoVars, cameraVars, textureVars,
             gunVars, startVars>>
regRest == <<connVars, histVars, resVars, tagVars,
             clientVars, videoVars, cameraVars, textureVars,
             gunVars, startVars>>
clientRest == <<connVars, histVars, resVars, tagVars,
                regVars, videoVars, cameraVars, textureVars,
                gunVars, startVars>>
videoRest == <<connVars, histVars, resVars, tagVars,
               regVars, clientVars, cameraVars, textureVars,
               gunVars, startVars>>
cameraRest == <<connVars, histVars, resVars, tagVars,
                regVars, clientVars, videoVars, textureVars,
                gunVars, startVars>>
textureRest == <<connVars, histVars, resVars, tagVars,
                 regVars, clientVars, videoVars, cameraVars,
                 gunVars, startVars>>
gunRest == <<connVars, histVars, resVars, tagVars,
             regVars, clientVars, videoVars, cameraVars,
             textureVars, startVars>>
startRest == <<connVars, histVars, resVars, tagVars,
               regVars, clientVars, videoVars, cameraVars,
               textureVars, gunVars>>

\* ------------------------------------------------------------ constants
\* part_000:16-21
subTypeConnectionOpen == 0
subTypeConnectionClose == 1
subTypeConnectionSetIP == 2
subTypeConnectionSetPort == 3

\* The order Start sends the connection events in (part_000:73-92).
EventOrder == <<subTypeConnectionClose, subTypeConnectionSetIP,
                subTypeConnectionSetPort, subTypeConnectionOpen>>

\* What a status Result can carry: r.Value() is an `any`.
StatusValues == {"true", "false", "notbool"}

\* r.Value().(bool): the asserted value and whether the assertion held.
IsBool(v) == v \in {"true", "false"}
AsBool(v) == v = "true"

\* Outcomes of a call into a collaborator (bridge, finder).
Outcomes == {TRUE, FALSE}

\* A stage of the call in progress: its kind ("listen", "find", "ack",
\* "event", "unlisten"), the event sub type (-1: no event) and its outcome.
Log(kind, subType, ok) == Append(stageLog, <<kind, subType, ok>>)

\* --------------------------------------------------------------- Init
ConnInit ==
  /\ m = "none"
  /\ connected = FALSE
  /\ connectionStatusToken = 0
  /\ listeners = {}
  /\ nextToken = 1
  /\ op = "none"
  /\ pc = "idle"
  /\ current = FALSE
  /\ ret = "none"
  /\ cbPc = "idle"
  /\ cbVal = "false"
  /\ rdPc = "idle"
  /\ stageLog = <<>>
  /\ regToken = 0
  /\ removed = FALSE
  /\ waitEntry = FALSE
  /\ waitExit = "none"
  /\ sawTrue = FALSE
  /\ futile = FALSE
  /\ transSince = 0
  /\ delivSince = 0
  /\ nCalls = 0
  /\ nDeliv = 0
  /\ nSpurious = 0

ResetCall ==
  /\ stageLog' = <<>>
  /\ regToken' = 0
  /\ removed' = FALSE
  /\ waitExit' = "none"
  /\ sawTrue' = FALSE
  /\ futile' = FALSE
  /\ ret' = "none"
  /\ nCalls' = nCalls + 1

\* ------------------------------------------------------ Connection.Start
\* The caller enters Start (part_000:51).
CallStart ==
  /\ pc \in {"idle", "ret"}
  /\ nCalls < MaxCalls
  /\ op' = "Start"
  /\ pc' = "s_lock"
  /\ ResetCall
  /\ UNCHANGED <<m, connected, connectionStatusToken, listeners, nextToken,
                 current, cbPc, cbVal, rdPc, waitEntry, transSince, delivSince, nDeliv,
                 nSpurious, connRest>>

\* cm.m.Lock() (part_000:52)
StartLock ==
  /\ pc = "s_lock"
  /\ m = "none"
  /\ m' = "caller"
  /\ pc' = "s_add"
  /\ UNCHANGED <<connected, connectionStatusToken, listeners, nextToken, op,
                 current, ret, cbPc, cbVal, rdPc, histVars, connRest>>

\* cm.ub.AddKeyListener(...) and its error branch (part_000:54-60)
StartAddKeyListener ==
  /\ pc = "s_add"
  /\ \E ok \in Outcomes :
       IF ok
       THEN /\ listeners' = listeners \cup {nextToken}
            /\ nextToken' = nextToken + 1
            /\ connectionStatusToken' = nextToken
            /\ regToken' = nextToken
            /\ stageLog' = Log("listen", -1, TRUE)
            /\ pc' = "s_unlock"
            /\ UNCHANGED <<m, ret>>
       ELSE /\ m' = "none"
            /\ ret' = "err"
            /\ pc' = "ret"
            /\ stageLog' = Log("listen", -1, FALSE)
            /\ UNCHANGED <<listeners, nextToken, connectionStatusToken,
                           regToken>>
  /\ UNCHANGED <<connected, op, current, cbPc, cbVal, rdPc, removed,
                 waitEntry, waitExit, sawTrue, futile, transSince, delivSince, nCalls,
                 nDeliv, nSpurious, connRest>>

\* cm.m.Unlock() (part_000:62)
StartUnlock ==
  /\ pc = "s_unlock"
  /\ m' = "none"
  /\ pc' = "s_find"
  /\ UNCHANGED <<connected, connectionStatusToken, listeners, nextToken, op,
                 current, ret, cbPc, cbVal, rdPc, histVars, connRest>>

\* cm.f.Find(30 * time.Second) and its error branch (part_000:64-67)
StartFind ==
  /\ pc = "s_find"
  /\ \E ok \in Outcomes :
       /\ stageLog' = Log("find", -1, ok)
       /\ IF ok THEN pc' = "s_ack" /\ UNCHANGED ret
                ELSE pc' = "ret" /\ ret' = "err"
  /\ UNCHANGED <<m, connected, connectionStatusToken, listeners, nextToken,
                 op, current, cbPc, cbVal, rdPc, regToken, removed, waitEntry,
                 waitExit, sawTrue, futile, transSince, delivSince, nCalls, nDeliv,
                 nSpurious, connRest>>

\* cm.f.SendACK(b.SourceIp(), b.AppId()): the outcome is not looked at
\* (part_000:69)
StartSendACK ==
  /\ pc = "s_ack"
  /\ \E ok \in Outcomes : stageLog' = Log("ack", -1, ok)
  /\ pc' = "s_ev1"
  /\ UNCHANGED <<m, connected, connectionStatusToken, listeners, nextToken,
                 op, current, ret, cbPc, cbVal, rdPc, regToken, removed,
                 waitEntry, waitExit, sawTrue, futile, transSince, delivSince, nCalls,
                 nDeliv, nSpurious, connRest>>

\* One `err = cm.ub.SendEvent...(e, ...); if err != nil { return err }` of
\* Start: on success go on to `next`, on failure return the error.
SendStep(at, subType, next) ==
  /\ pc = at
  /\ \E ok \in Outcomes :
       /\ stageLog' = Log("event", subType, ok)
       /\ IF ok THEN pc' = next /\ UNCHANGED ret
                ELSE pc' = "ret" /\ ret' = "err"
  /\ IF subType = subTypeConnectionOpen \/ op = "Stop"
     THEN transSince' = 0 /\ delivSince' = 0
     ELSE UNCHANGED <<transSince, delivSince>>
  /\ UNCHANGED <<m, connected, connectionStatusToken, listeners, nextToken,
                 op, current, cbPc, cbVal, rdPc, regToken, removed, waitEntry,
                 waitExit, sawTrue, futile, nCalls, nDeliv, nSpurious, connRest>>

\* part_000:73-77
StartSendClose == SendStep("s_ev1", subTypeConnectionClose, "s_ev2")
\* A send whose error is not checked: Start goes on to `next` either way.
SendStepDropsError(at, subType, next) ==
  /\ pc = at
  /\ \E ok \in Outcomes : stageLog' = Log("event", subType, ok)
  /\ pc' = next
  /\ UNCHANGED <<m, connected, connectionStatusToken, listeners, nextToken,
                 op, current, ret, cbPc, cbVal, rdPc, regToken, removed,
                 waitEntry, waitExit, sawTrue, futile, transSince, delivSince,
                 nCalls, nDeliv, nSpurious, connRest>>

StartSendSetIPDropsError ==
  SendStepDropsError("s_ev2", subTypeConnectionSetIP, "s_ev3")

\* part_000:79-83
StartSendSetIP == SendStep("s_ev2", subTypeConnectionSetIP, "s_ev3")
\* part_000:85-89
StartSendSetPort == SendStep("s_ev3", subTypeConnectionSetPort, "s_ev4")
\* part_000:91-95
StartSendOpen == SendStep("s_ev4", subTypeConnectionOpen, "w_call")

\* ------------------------------------------------------- Connection.Stop
\* The caller enters Stop (part_000:102).
CallStop ==
  /\ pc \in {"idle", "ret"}
  /\ nCalls < MaxCalls
  /\ op' = "Stop"
  /\ pc' = "t_ev"
  /\ ResetCall
  /\ UNCHANGED <<m, connected, connectionStatusToken, listeners, nextToken,
                 current, cbPc, cbVal, rdPc, waitEntry, transSince, delivSince, nDeliv,
                 nSpurious, connRest>>

\* part_000:105-109
StopSendClose == SendStep("t_ev", subTypeConnectionClose, "w_call")

\* cm.ub.RemoveKeyListener(key.KeyAirLinkConnection,
\* cm.connectionStatusToken); an unregistered token is an error
\* (part_000:113-119)
StopRemoveKeyListener ==
  /\ pc = "t_rm"
  /\ IF connectionStatusToken \in listeners
     THEN /\ listeners' = listeners \ {connectionStatusToken}
          /\ removed' = TRUE
          /\ ret' = "nil"
          /\ stageLog' = Log("unlisten", -1, TRUE)
     ELSE /\ ret' = "err"
          /\ stageLog' = Log("unlisten", -1, FALSE)
          /\ UNCHANGED <<listeners, removed>>
  /\ pc' = "ret"
  /\ UNCHANGED <<m, connected, connectionStatusToken, nextToken, op, current,
                 cbPc, cbVal, rdPc, regToken, waitEntry, waitExit, sawTrue,
                 futile, transSince, delivSince, nCalls, nDeliv, nSpurious, connRest>>

\* ------------------------------ Connection.waitForConnectionStatusChange
\* The call itself (part_000:97, 111, 129).
WaitCall ==
  /\ pc = "w_call"
  /\ pc' = "w_lock"
  /\ waitEntry' = connected
  /\ sawTrue' = FALSE
  /\ UNCHANGED <<m, connected, connectionStatusToken, listeners, nextToken,
                 op, current, ret, cbPc, cbVal, rdPc, stageLog, regToken,
                 removed, waitExit, futile, transSince, delivSince, nCalls, nDeliv,
                 nSpurious, connRest>>

\* cm.m.Lock() (part_000:130)
WaitLock ==
  /\ pc = "w_lock"
  /\ m = "none"
  /\ m' = "caller"
  /\ pc' = "w_snap"
  /\ UNCHANGED <<connected, connectionStatusToken, listeners, nextToken, op,
                 current, ret, cbPc, cbVal, rdPc, histVars, connRest>>

\* current := cm.connected (part_000:133)
WaitSnapshot ==
  /\ pc = "w_snap"
  /\ current' = connected
  /\ pc' = "w_test"
  /\ UNCHANGED <<m, connected, connectionStatusToken, listeners, nextToken,
                 op, ret, cbPc, cbVal, rdPc, histVars, connRest>>

\* for cm.connected == current { cm.cond.Wait() }: the test, and either
\* Wait's enqueue-and-unlock or the end of the loop (part_000:134-135)
WaitTest ==
  /\ pc = "w_test"
  /\ IF connected = current
     THEN /\ m' = "none"
          /\ pc' = "w_blocked"
          /\ UNCHANGED waitExit
     ELSE /\ pc' = "w_unlock"
          /\ waitExit' = IF connected THEN "true" ELSE "false"
          /\ UNCHANGED m
  /\ UNCHANGED <<connected, connectionStatusToken, listeners, nextToken, op,
                 current, ret, cbPc, cbVal, rdPc, stageLog, regToken, removed,
                 waitEntry, sawTrue, futile, transSince, delivSince, nCalls, nDeliv,
                 nSpurious, connRest>>

\* `if` in place of `for`: a woken waiter leaves the wait without testing
\* cm.connected again.
WaitReacquireOnce ==
  /\ pc = "w_woken"
  /\ m = "none"
  /\ m' = "caller"
  /\ pc' = "w_unlock"
  /\ futile' = (futile \/ connected = current)
  /\ waitExit' = IF connected THEN "true" ELSE "false"
  /\ UNCHANGED <<connected, connectionStatusToken, listeners, nextToken, op,
                 current, ret, cbPc, cbVal, rdPc, stageLog, regToken, removed,
                 waitEntry, sawTrue, transSince, delivSince, nCalls, nDeliv,
                 nSpurious, connRest>>

\* cond.Wait() after it was woken: lock again and go round the loop
\* (part_000:134-135)
WaitReacquire ==
  /\ pc = "w_woken"
  /\ m = "none"
  /\ m' = "caller"
  /\ pc' = "w_test"
  /\ futile' = (futile \/ connected = current)
  /\ UNCHANGED <<connected, connectionStatusToken, listeners, nextToken, op,
                 current, ret, cbPc, cbVal, rdPc, stageLog, regToken, removed,
                 waitEntry, waitExit, sawTrue, transSince, delivSince, nCalls, nDeliv,
                 nSpurious, connRest>>

\* defer cm.m.Unlock() and the return into Start (part_000:99) or Stop
\* (part_000:113)
WaitUnlock ==
  /\ pc = "w_unlock"
  /\ m' = "none"
  /\ IF op = "Start"
     THEN pc' = "ret" /\ ret' = "nil"
     ELSE pc' = "t_rm" /\ UNCHANGED ret
  /\ UNCHANGED <<connected, connectionStatusToken, listeners, nextToken, op,
                 current, cbPc, cbVal, rdPc, histVars, connRest>>

\* Another goroutine wakes the condition variable without a status change
\* (a Broadcast or Signal on cm.cond, part_000:32).
SpuriousWake ==
  /\ pc = "w_blocked"
  /\ nSpurious < MaxSpurious
  /\ nSpurious' = nSpurious + 1
  /\ pc' = "w_woken"
  /\ UNCHANGED <<m, connected, connectionStatusToken, listeners, nextToken,
                 op, current, ret, cbPc, cbVal, rdPc, stageLog, regToken,
                 removed, waitEntry, waitExit, sawTrue, futile, transSince, delivSince,
                 nCalls, nDeliv, connRest>>

\* ------------------------------------ Connection.connectionStatusChanged
\* The bridge invokes the listener with a Result (part_000:139); it does so
\* only while a listener is registered for the key.
Deliver ==
  /\ cbPc = "idle"
  /\ listeners # {}
  /\ nDeliv < MaxDeliveries
  /\ nDeliv' = nDeliv + 1
  /\ delivSince' = delivSince + 1
  /\ \E v \in StatusValues : cbVal' = v
  /\ cbPc' = "check"
  /\ UNCHANGED <<m, connected, connectionStatusToken, listeners, nextToken,
                 op, pc, current, ret, rdPc, stageLog, regToken, removed,
                 waitEntry, waitExit, sawTrue, futile, transSince, nCalls,
                 nSpurious, connRest>>

\* connected, ok := r.Value().(bool); if !ok {return}
\* else if cm.connected != connected {...}: cm.connected is read here
\* without cm.m (part_000:140-144)
CallbackCheck ==
  /\ cbPc = "check"
  /\ cbPc' = IF IsBool(cbVal) /\ connected # AsBool(cbVal)
             THEN "lock" ELSE "idle"
  /\ UNCHANGED <<m, connected, connectionStatusToken, listeners, nextToken,
                 op, pc, current, ret, cbVal, rdPc, histVars, connRest>>

\* cm.m.Lock() (part_000:147)
CallbackLock ==
  /\ cbPc = "lock"
  /\ m = "none"
  /\ m' = "callback"
  /\ cbPc' = "set"
  /\ UNCHANGED <<connected, connectionStatusToken, listeners, nextToken, op,
                 pc, current, ret, cbVal, rdPc, histVars, connRest>>

\* cm.connected = connected; cm.cond.Broadcast() (part_000:149-150)
CallbackSet ==
  /\ cbPc = "set"
  /\ connected' = AsBool(cbVal)
  /\ pc' = IF pc = "w_blocked" THEN "w_woken" ELSE pc
  /\ cbPc' = "unlock"
  /\ sawTrue' = (sawTrue \/ AsBool(cbVal))
  /\ transSince' = transSince + 1
  /\ UNCHANGED <<m, connectionStatusToken, listeners, nextToken, op, current,
                 ret, cbVal, rdPc, stageLog, regToken, removed, waitEntry,
                 waitExit, futile, delivSince, nCalls, nDeliv, nSpurious, connRest>>

\* cm.m.Unlock(); return (part_000:152-154)
CallbackUnlock ==
  /\ cbPc = "unlock"
  /\ m' = "none"
  /\ cbPc' = "idle"
  /\ UNCHANGED <<connected, connectionStatusToken, listeners, nextToken, op,
                 pc, current, ret, cbVal, rdPc, histVars, connRest>>

\* -------------------------------------------------- Connection.Connected
\* cm.m.Lock() (part_000:123)
ConnectedLock ==
  /\ rdPc = "idle"
  /\ m = "none"
  /\ m' = "reader"
  /\ rdPc' = "read"
  /\ UNCHANGED <<connected, connectionStatusToken, listeners, nextToken, op,
                 pc, current, ret, cbPc, cbVal, histVars, connRest>>

\* return cm.connected, with the deferred cm.m.Unlock() (part_000:124-126)
ConnectedRead ==
  /\ rdPc = "read"
  /\ m' = "none"
  /\ rdPc' = "idle"
  /\ UNCHANGED <<connected, connectionStatusToken, listeners, nextToken, op,
                 pc, current, ret, cbPc, cbVal, histVars, connRest>>


\* ===================================================== unity/result
\* A *key.Key is modelled by its sub type; NilKey is the nil pointer.
NilKey == -1

\* The key catalog: the sub types key.FromSubType knows.
KnownKeys == {5, 117}

\* key.FromSubType(subType): the key and whether the lookup succeeded.
FromSubTypeOk(subType) == subType \in KnownKeys

\* Go values held in an `any`: <<"nil">>, <<"bool", b>>, <<"float64", n>>,
\* <<"string", s>>, <<"map", members>>; JSON values: <<"null">>,
\* <<"bool", b>>, <<"num", n>>, <<"bignum">> (a number no Go integer type
\* holds), <<"str", s>>, <<"obj", members>>.  Members are a sequence of
\* <<name, value>> pairs.
GoNil == <<"nil">>
JsonNull == <<"null">>
Absent == <<"absent">>

HasMember(members, name) ==
  \E i \in 1..Len(members) : members[i][1] = name

\* The member of that name (the last one, as encoding/json keeps it).
Member(members, name) ==
  members[CHOOSE i \in 1..Len(members) :
            /\ members[i][1] = name
            /\ \A j \in (i + 1)..Len(members) : members[j][1] # name][2]

\* encoding/json decoding a JSON value into an `any` (result.go:28, 56).
RECURSIVE DecodeAny(_)
DecodeAny(j) ==
  CASE j[1] = "null" -> GoNil
    [] j[1] = "bool" -> <<"bool", j[2]>>
    [] j[1] = "num" -> <<"float64", j[2]>>
    [] j[1] = "bignum" -> <<"float64", "big">>
    [] j[1] = "str" -> <<"string", j[2]>>
    [] j[1] = "obj" ->
         <<"map", [i \in 1..Len(j[2]) |->
                     <<j[2][i][1], DecodeAny(j[2][i][2])>>]>>

\* encoding/json decoding one member of the envelope into an integer field
\* of jsonResult (result.go:24-28): a missing member and null leave the
\* zero value, a number the type holds is stored, anything else is an
\* error.  `signed` is FALSE for uint32 and uint64.  Every <<"num", n>> of
\* the model fits 32 bits.
IntFieldOk(members, name, signed) ==
  \/ ~HasMember(members, name)
  \/ LET j == Member(members, name) IN
       \/ j[1] = "null"
       \/ j[1] = "num" /\ (signed \/ j[2] >= 0)

IntField(members, name) ==
  IF HasMember(members, name) /\ Member(members, name)[1] = "num"
  THEN Member(members, name)[2] ELSE 0

\* json.Unmarshal(jsonData, &jr) (result.go:54-56): whether it succeeded.
UnmarshalOk(data) ==
  /\ data[1] = "json"
  /\ \/ data[2][1] = "null"
     \/ /\ data[2][1] = "obj"
        /\ IntFieldOk(data[2][2], "Key", FALSE)
        /\ IntFieldOk(data[2][2], "Tag", FALSE)
        /\ IntFieldOk(data[2][2], "Error", TRUE)

\* The jsonResult json.Unmarshal fills in (result.go:24-29, 54-56).
Unmarshal(data) ==
  IF data[2][1] = "obj"
  THEN [Key |-> IntField(data[2][2], "Key"),
        Tag |-> IntField(data[2][2], "Tag"),
        Error |-> IntField(data[2][2], "Error"),
        Value |-> IF HasMember(data[2][2], "Value")
                  THEN DecodeAny(Member(data[2][2], "Value")) ELSE GoNil]
  ELSE [Key |-> 0, Tag |-> 0, Error |-> 0, Value |-> GoNil]

\* The error description set, the error code left at its zero value.
ErrorResultCodeUnset(desc) ==
  [key |-> NilKey, tag |-> 0, errorCode |-> 0, errorDesc |-> desc,
   value |-> GoNil]

\* &Result{} with an error filled in (result.go:46-51, 57-61, 65-70, 84-88).
ErrorResult(desc) ==
  [key |-> NilKey, tag |-> 0, errorCode |-> -1, errorDesc |-> desc,
   value |-> GoNil]

\* result.go:31-40
New(key, tag, errorCode, errorDesc, value) ==
  [key |-> key, tag |-> tag, errorCode |-> errorCode,
   errorDesc |-> errorDesc, value |-> value]

\* A description only for the positive error codes.
ErrorDescOfPositive(errorCode) ==
  IF errorCode > 0 THEN "error " \o ToString(errorCode) ELSE ""

\* errorDesc := ""; if jr.Error != 0 { errorDesc = fmt.Sprintf("error %d",
\* jr.Error) } (result.go:73-76)
ErrorDescOf(errorCode) ==
  IF errorCode # 0 THEN "error " \o ToString(errorCode) ELSE ""

\* Every {"value": ...} wrapper around a decoded value taken off, not one.
RECURSIVE UnwrapAll(_)
UnwrapAll(v) ==
  IF v[1] = "map" /\ HasMember(v[2], "value")
  THEN UnwrapAll(Member(v[2], "value")) ELSE v

\* NewFromJSON unwrapping as deep as the wrappers go.
NewFromJSONUnwrapAll(data) ==
  IF data[1] = "empty"
  THEN ErrorResult("empty or nil json data")
  ELSE IF ~UnmarshalOk(data)
  THEN ErrorResult("error unmarshalling json data")
  ELSE LET jr == Unmarshal(data) IN
    IF ~FromSubTypeOk(jr.Key)
    THEN ErrorResult("error creating key from sub type " \o ToString(jr.Key))
    ELSE LET errorDesc == ErrorDescOf(jr.Error) IN
      IF jr.Value[1] = "map"
      THEN IF HasMember(jr.Value[2], "value")
           THEN New(jr.Key, jr.Tag, jr.Error, errorDesc,
                    UnwrapAll(Member(jr.Value[2], "value")))
           ELSE ErrorResult("value field not found")
      ELSE New(jr.Key, jr.Tag, jr.Error, errorDesc, jr.Value)

\* result.go:45-101
NewFromJSON(data) ==
  IF data[1] = "empty"
  THEN ErrorResult("empty or nil json data")
  ELSE IF ~UnmarshalOk(data)
  THEN ErrorResult("error unmarshalling json data")
  ELSE LET jr == Unmarshal(data) IN
    IF ~FromSubTypeOk(jr.Key)
    THEN ErrorResult("error creating key from sub type " \o ToString(jr.Key))
    ELSE LET errorDesc == ErrorDescOf(jr.Error) IN
      IF jr.Value[1] = "map"
      THEN IF HasMember(jr.Value[2], "value")
           THEN New(jr.Key, jr.Tag, jr.Error, errorDesc,
                    Member(jr.Value[2], "value"))
           ELSE ErrorResult("value field not found")
      ELSE New(jr.Key, jr.Tag, jr.Error, errorDesc, jr.Value)

\* result.go:104-106
Key(r) == r.key
\* result.go:114-116
Tag(r) == r.tag
\* result.go:119-121
ErrorCode(r) == r.errorCode
\* result.go:129-131
ErrorDesc(r) == r.errorDesc
\* result.go:139-141
Value(r) == r.value

\* Success read off the sign of the code instead of the code itself.
SucceededNonNegative(r) == r.errorCode >= 0

\* result.go:149-151
Succeeded(r) == r.errorCode = 0

\* ---- the inputs tried
JsonScalars ==
  {JsonNull, <<"bool", TRUE>>, <<"bool", FALSE>>, <<"num", 7>>, <<"str", "a">>}

Obj(members) == <<"obj", members>>

\* Objects a Value member can be: without a "value" member, with one, and a
\* wrapper inside a wrapper.
JsonValueObjects ==
  {Obj(<<>>)}
    \cup {Obj(<< <<"other", x>> >>) : x \in JsonScalars}
    \cup {Obj(<< <<"value", x>> >>) : x \in JsonScalars}
    \cup {Obj(<< <<"value", Obj(<< <<"value", x>> >>)>> >>) : x \in JsonScalars}

KeyMembers == {Absent, <<"num", 5>>, <<"num", 999>>, <<"num", -1>>,
               <<"str", "a">>}
TagMembers == {Absent, <<"num", 42>>, <<"bignum">>}
ErrorMembers == {Absent, <<"num", 0>>, <<"num", 7>>, <<"num", -3>>,
                 <<"bignum">>}
ValueMembers == {Absent} \cup JsonScalars \cup JsonValueObjects

Envelope(k, t, e, v) ==
  Obj(SelectSeq(<< <<"Key", k>>, <<"Tag", t>>, <<"Error", e>>,
                   <<"Value", v>> >>, LAMBDA p : p[2] # Absent))

\* The byte slices handed to NewFromJSON: none, text that is not JSON, and
\* JSON texts.
JsonInputs ==
  {<<"empty">>, <<"malformed">>}
    \cup {<<"json", x>> : x \in JsonScalars}
    \cup {<<"json", Envelope(k, t, e, v)>> : k \in KeyMembers,
            t \in TagMembers, e \in ErrorMembers, v \in ValueMembers}

GoValues == {GoNil, <<"bool", TRUE>>, <<"float64", 7>>, <<"string", "a">>}
ErrorCodes == {-2147483647 - 1, -1, 0, 7, 2147483647}
ErrorDescs == {"", "boom"}
Tags == {0, 42}
Keys == KnownKeys \cup {NilKey}

\* Before a constructor ran there is the zero value of Result (result.go:10-18).
ZeroResult == New(NilKey, 0, 0, "", GoNil)

\* No jsonData: the Result was made by New or a setter has touched it.
NoInput == <<"none">>

ResultInit == res = ZeroResult /\ built = FALSE /\ input = NoInput

\* ---- the operations on the Result under test
DoNew ==
  /\ ~built
  /\ built' = TRUE
  /\ \E k \in Keys, t \in Tags, c \in ErrorCodes, d \in ErrorDescs,
        v \in GoValues : res' = New(k, t, c, d, v)
  /\ input' = NoInput
  /\ UNCHANGED resultRest

DoNewFromJSON ==
  /\ ~built
  /\ built' = TRUE
  /\ \E data \in JsonInputs : res' = NewFromJSON(data) /\ input' = data
  /\ UNCHANGED resultRest

\* result.go:109-111
SetKey ==
  /\ built
  /\ UNCHANGED built
  /\ input' = NoInput
  /\ \E k \in Keys : res' = [res EXCEPT !.key = k]
  /\ UNCHANGED resultRest

\* result.go:124-126
SetErrorCode ==
  /\ built
  /\ UNCHANGED built
  /\ input' = NoInput
  /\ \E c \in ErrorCodes : res' = [res EXCEPT !.errorCode = c]
  /\ UNCHANGED resultRest

\* result.go:134-136
SetErrorDesc ==
  /\ built
  /\ UNCHANGED built
  /\ input' = NoInput
  /\ \E d \in ErrorDescs : res' = [res EXCEPT !.errorDesc = d]
  /\ UNCHANGED resultRest

\* result.go:144-146
SetValue ==
  /\ built
  /\ UNCHANGED built
  /\ input' = NoInput
  /\ \E v \in GoValues : res' = [res EXCEPT !.value = v]
  /\ UNCHANGED resultRest

\* The Result is dropped; the next one is built afresh.
Discard ==
  /\ built
  /\ built' = FALSE
  /\ res' = ZeroResult
  /\ input' = NoInput
  /\ UNCHANGED resultRest

ResultNext ==
  \/ DoNew \/ DoNewFromJSON
  \/ SetKey \/ SetErrorCode \/ SetErrorDesc \/ SetValue
  \/ Discard


\* ============================================ example: callbackHandler
\* A uint64 is four 16-bit limbs, most significant first: the model
\* checker's integers are 32 bits wide.
LimbBase == 65536

Uint64(l3, l2, l1, l0) == <<l3, l2, l1, l0>>

\* x >> 56 on a uint64
ShiftRight56(x) == Uint64(0, 0, 0, x[1] \div 256)

\* x << 56 on a uint64: the bits shifted beyond bit 63 are lost
ShiftLeft56(x) == Uint64((x[4] * 256) % LimbBase, 0, 0, 0)

\* a & b and a | b on 16-bit limbs, bit by bit
RECURSIVE LimbAnd(_, _, _)
LimbAnd(a, b, bits) ==
  IF bits = 0 THEN 0
  ELSE (a % 2) * (b % 2) + 2 * LimbAnd(a \div 2, b \div 2, bits - 1)

RECURSIVE LimbOr(_, _, _)
LimbOr(a, b, bits) ==
  IF bits = 0 THEN 0
  ELSE (IF a % 2 = 1 \/ b % 2 = 1 THEN 1 ELSE 0)
         + 2 * LimbOr(a \div 2, b \div 2, bits - 1)

And64(x, y) == [i \in 1..4 |-> LimbAnd(x[i], y[i], 16)]
Or64(x, y) == [i \in 1..4 |-> LimbOr(x[i], y[i], 16)]

\* 0xff and 0x0000ffffffffffff (example.go:13, 23)
MaskFF == Uint64(0, 0, 0, 255)
Mask48 == Uint64(0, 65535, 65535, 65535)

\* x >> 48 on a uint64
ShiftRight48(x) == Uint64(0, 0, 0, x[1])

\* The data type read after a shift of 48 bits in place of 56.
DecodeDataTypeShift48(tag) == And64(ShiftRight48(tag), MaskFF)

\* dataType := (tag >> 56) & 0xff (example.go:13)
DecodeDataType(tag) == And64(ShiftRight56(tag), MaskFF)

\* tag = tag & 0x0000ffffffffffff (example.go:23)
DecodeSequence(tag) == And64(tag, Mask48)

\* The tag the bridge builds for data type d and sequence number s:
\* (d << 56) | s.
EncodeTag(d, s) == Or64(ShiftLeft56(d), s)

\* The limbs tried, the data types (0: string, 1: uint64, and others) and
\* the sequence numbers, of 48 bits and beyond.
Limbs == {0, 1, 255, 256, 65535}
DataTypes == {Uint64(0, 0, 0, d) : d \in {0, 1, 2, 255}}
Sequences48 == {Uint64(0, a, b, c) : a, b, c \in Limbs}
SequencesWide == {Uint64(a, b, 0, c) : a \in {1, 256}, b, c \in {0, 65535}}

\* No call of callbackHandler is in progress.
NotHandling ==
  [d |-> Uint64(0, 0, 0, 0), s |-> Uint64(0, 0, 0, 0),
   tag |-> Uint64(0, 0, 0, 0), dataType |-> Uint64(0, 0, 0, 0),
   sequence |-> Uint64(0, 0, 0, 0), calls |-> 0]

TagInit == handled = NotHandling

\* The bridge invokes callbackHandler with the tag made of d and s; the
\* handler takes the tag apart (example.go:12-23).
callbackHandler ==
  /\ handled.calls = 0
  /\ \E d \in DataTypes, s \in Sequences48 \cup SequencesWide :
       LET tag == EncodeTag(d, s) IN
         handled' = [d |-> d, s |-> s, tag |-> tag,
                     dataType |-> DecodeDataType(tag),
                     sequence |-> DecodeSequence(tag), calls |-> 1]
  /\ UNCHANGED tagRest

\* callbackHandler returns (example.go:33).
callbackHandlerReturn ==
  /\ handled.calls > 0
  /\ handled' = NotHandling
  /\ UNCHANGED tagRest

TagNext == callbackHandler \/ callbackHandlerReturn


\* =============================== unitybridge/wrapper: SetEventCallback
\* The event type codes and the callbacks tried; "nil" is the nil callback,
\* "never" marks a code no call was made for.
EventCodes == {0, 1}
Callbacks == {"cb1", "cb2"}
NoCall == <<"none">>

\* internal_callback.NewManager(l): a registry without handlers.
NewManager == [code \in EventCodes |-> "nil"]

\* Manager.Set(eventTypeCode, c): c becomes the sole handler of the code, a
\* nil c clears it.
ManagerSet(table, code, c) == [table EXCEPT ![code] = c]

RegInit ==
  /\ native = [code \in EventCodes |-> FALSE]
  /\ registry = NewManager
  /\ setting = NoCall
  /\ lastSet = [code \in EventCodes |-> "never"]
  /\ regetted = FALSE

\* The trampoline handed to the native layer whatever the callback is.
SetEventCallbackNativeAlways ==
  /\ setting = NoCall
  /\ \E code \in EventCodes, c \in Callbacks \cup {"nil"} :
       /\ native' = [native EXCEPT ![code] = TRUE]
       /\ setting' = <<"call", code, c>>
  /\ UNCHANGED <<registry, lastSet, regetted, regRest>>

\* SetEventCallback(eventTypeCode, c) up to the native call: the trampoline
\* for a non-nil c, the null pointer for nil (dlopen.go:171-182)
SetEventCallbackNative ==
  /\ setting = NoCall
  /\ \E code \in EventCodes, c \in Callbacks \cup {"nil"} :
       /\ native' = [native EXCEPT ![code] = (c # "nil")]
       /\ setting' = <<"call", code, c>>
  /\ UNCHANGED <<registry, lastSet, regetted, regRest>>

\* d.m.Set(eventTypeCode, c) and the return (dlopen.go:184-185)
SetEventCallbackSet ==
  /\ setting # NoCall
  /\ registry' = ManagerSet(registry, setting[2], setting[3])
  /\ lastSet' = [lastSet EXCEPT ![setting[2]] = setting[3]]
  /\ setting' = NoCall
  /\ UNCHANGED <<native, regetted, regRest>>

\* Get(l): the one UnityBridgeImpl is given a new Manager and returned
\* (dlopen.go:132-145)
Get ==
  /\ setting = NoCall
  /\ registry' = NewManager
  /\ regetted' = (regetted \/ \E code \in EventCodes : lastSet[code] # "never")
  /\ UNCHANGED <<native, setting, lastSet, regRest>>

RegNext == SetEventCallbackNative \/ SetEventCallbackSet \/ Get


\* ========================================================= sdk2: Client
\* The bridge and the modules of a Client, by field name.
Components == {"ub", "cn", "rb", "cm", "ct"}

\* The calls of Client.Start in program order (part_002:73-118) and of
\* Client.Stop (part_002:157-184).
StartSteps ==
  << <<"ub", "Start">>,
     <<"cn", "Start">>, <<"cn", "WaitForConnection">>,
     <<"rb", "Start">>, <<"rb", "WaitForConnection">>,
     <<"cm", "Start">>, <<"cm", "WaitForConnection">>,
     <<"ct", "Start">>, <<"ct", "WaitForConnection">> >>
StopSteps ==
  << <<"ct", "Stop">>, <<"cm", "Stop">>, <<"rb", "Stop">>, <<"cn", "Stop">>,
     <<"ub", "Stop">> >>

\* The error a call returns when a step fails: the error of the Start or
\* Stop that failed, or Client.Start's own error for a false
\* WaitForConnection.
ErrorOf(step) ==
  IF step[2] = "WaitForConnection"
  THEN <<"connection unexpectedly not established", step[1]>>
  ELSE <<"err", step>>

\* The components after a step that succeeded: a Start that returned nil
\* starts its component, a Stop that returned nil stops it.
UpAfter(before, step) ==
  IF step[2] = "WaitForConnection" THEN before
  ELSE [before EXCEPT ![step[1]] = (step[2] = "Start")]

\* Not inside a Client call.
Returned == 0

ClientInit ==
  /\ started = FALSE
  /\ up = [c \in Components |-> FALSE]
  /\ clientPc = Returned
  /\ clientOp = "none"
  /\ clientCalls = <<>>
  /\ clientRet = "nil"
  /\ wasStarted = FALSE
  /\ everStarted = FALSE

\* Client.Start entered without the c.started test.
ClientStartUnguarded ==
  /\ clientPc = Returned
  /\ clientOp' = "Start"
  /\ wasStarted' = started
  /\ clientCalls' = <<>>
  /\ clientRet' = "running"
  /\ clientPc' = 1
  /\ UNCHANGED <<started, up, everStarted, clientRest>>

\* Client.Start up to the c.started test (part_002:65-71); c.m is held
\* from here to the return.
ClientStart ==
  /\ clientPc = Returned
  /\ clientOp' = "Start"
  /\ wasStarted' = started
  /\ clientCalls' = <<>>
  /\ IF started
     THEN clientRet' = "client already started" /\ clientPc' = Returned
     ELSE clientRet' = "running" /\ clientPc' = 1
  /\ UNCHANGED <<started, up, everStarted, clientRest>>

\* What a call leaves in the log: the component, the method and whether it
\* succeeded (a nil error, or true from WaitForConnection).
Called(step, ok) == <<step[1], step[2], ok>>

\* Client.Start going on to the next module after a WaitForConnection that
\* returned false.
ClientStartStepIgnoresWait ==
  /\ clientPc # Returned /\ clientOp = "Start"
  /\ \E ok \in BOOLEAN :
       /\ clientCalls' = Append(clientCalls, Called(StartSteps[clientPc], ok))
       /\ IF ok \/ StartSteps[clientPc][2] = "WaitForConnection"
          THEN /\ up' = UpAfter(up, StartSteps[clientPc])
               /\ IF clientPc = Len(StartSteps)
                  THEN /\ started' = TRUE
                       /\ everStarted' = TRUE
                       /\ clientRet' = "nil"
                       /\ clientPc' = Returned
                  ELSE /\ clientPc' = clientPc + 1
                       /\ UNCHANGED <<started, everStarted, clientRet>>
          ELSE /\ clientRet' = ErrorOf(StartSteps[clientPc])
               /\ clientPc' = Returned
               /\ UNCHANGED <<started, up, everStarted>>
  /\ UNCHANGED <<clientOp, wasStarted, clientRest>>

\* One call of Client.Start on the bridge or a module, which succeeds or
\* fails; after the last one c.started = true (part_002:73-122)
ClientStartStep ==
  /\ clientPc # Returned /\ clientOp = "Start"
  /\ \E ok \in BOOLEAN :
       /\ clientCalls' = Append(clientCalls, Called(StartSteps[clientPc], ok))
       /\ IF ok
          THEN /\ up' = UpAfter(up, StartSteps[clientPc])
               /\ IF clientPc = Len(StartSteps)
                  THEN /\ started' = TRUE
                       /\ everStarted' = TRUE
                       /\ clientRet' = "nil"
                       /\ clientPc' = Returned
                  ELSE /\ clientPc' = clientPc + 1
                       /\ UNCHANGED <<started, everStarted, clientRet>>
          ELSE /\ clientRet' = ErrorOf(StartSteps[clientPc])
               /\ clientPc' = Returned
               /\ UNCHANGED <<started, up, everStarted>>
  /\ UNCHANGED <<clientOp, wasStarted, clientRest>>

\* Client.Stop up to the c.started test (part_002:146-152)
ClientStop ==
  /\ clientPc = Returned
  /\ clientOp' = "Stop"
  /\ wasStarted' = started
  /\ clientCalls' = <<>>
  /\ IF ~started
     THEN clientRet' = "client not started" /\ clientPc' = Returned
     ELSE clientRet' = "running" /\ clientPc' = 1
  /\ UNCHANGED <<started, up, everStarted, clientRest>>

\* One call of Client.Stop on a module or the bridge (part_002:157-186). No
\* statement of Client.Stop assigns c.started.
ClientStopStep ==
  /\ clientPc # Returned /\ clientOp = "Stop"
  /\ \E ok \in BOOLEAN :
       /\ clientCalls' = Append(clientCalls, Called(StopSteps[clientPc], ok))
       /\ IF ok
          THEN /\ up' = UpAfter(up, StopSteps[clientPc])
               /\ IF clientPc = Len(StopSteps)
                  THEN clientRet' = "nil" /\ clientPc' = Returned
                  ELSE clientPc' = clientPc + 1 /\ UNCHANGED clientRet
          ELSE /\ clientRet' = ErrorOf(StopSteps[clientPc])
               /\ clientPc' = Returned
               /\ UNCHANGED up
  /\ UNCHANGED <<started, everStarted, clientOp, wasStarted, clientRest>>

ClientNext == ClientStart \/ ClientStartStep \/ ClientStop \/ ClientStopStep

\* =================================== sdk2/internal/manager: Video
\* The resolution ids tried.
ResolutionIDs == {0, 1, 2}

\* The Results a completion callback is invoked with.
Completions ==
  {New(k, 0, c, d, GoNil) : k \in KnownKeys, c \in ErrorCodes,
                            d \in ErrorDescs}

VideoInit ==
  /\ vPc = "idle"
  /\ resolutionID = 0
  /\ wg = 0
  /\ vErr = "nil"
  /\ vRet = "nil"
  /\ completion = "none"
  /\ delivered = ZeroResult

\* var err error; wg.Add(1) (video.go:70-74)
SetVideoResolution ==
  /\ vPc \in {"idle", "returned"}
  /\ \E id \in ResolutionIDs : resolutionID' = id
  /\ vErr' = "nil"
  /\ wg' = 1
  /\ vPc' = "set"
  /\ completion' = "none"
  /\ delivered' = ZeroResult
  /\ UNCHANGED <<vRet, videoRest>>

\* v.ub.SetKeyValue(key.KeyCameraVideoFormat, resolutionID, callback), its
\* error return not read (video.go:76-81): the bridge keeps the callback to
\* invoke it with the Result, or the request is lost (SetKeyValue returns an
\* error, or the native layer never answers).
SetKeyValue ==
  /\ vPc = "set"
  /\ \E fate \in {"pending", "dropped"} : completion' = fate
  /\ vPc' = "wait"
  /\ UNCHANGED <<resolutionID, wg, vErr, vRet, delivered, videoRest>>

\* The completion callback telling failure by a positive code only.
CompletionCallbackPositive ==
  /\ completion = "pending"
  /\ \E r \in Completions :
       /\ delivered' = r
       /\ vErr' = IF ErrorCode(r) > 0
                  THEN <<"error setting video resolution", ErrorDesc(r)>>
                  ELSE vErr
  /\ wg' = wg - 1
  /\ completion' = "invoked"
  /\ UNCHANGED <<vPc, resolutionID, vRet, videoRest>>

\* func(r *result.Result) { if r.ErrorCode() != 0 { err = ... }; wg.Done() }
\* (video.go:76-81)
CompletionCallback ==
  /\ completion = "pending"
  /\ \E r \in Completions :
       /\ delivered' = r
       /\ vErr' = IF ErrorCode(r) # 0
                  THEN <<"error setting video resolution", ErrorDesc(r)>>
                  ELSE vErr
  /\ wg' = wg - 1
  /\ completion' = "invoked"
  /\ UNCHANGED <<vPc, resolutionID, vRet, videoRest>>

\* wg.Wait(); return err (video.go:83-85)
WaitAndReturn ==
  /\ vPc = "wait"
  /\ wg = 0
  /\ vRet' = vErr
  /\ vPc' = "returned"
  /\ UNCHANGED <<resolutionID, wg, vErr, completion, delivered, videoRest>>

VideoNext ==
  SetVideoResolution \/ SetKeyValue \/ CompletionCallback \/ WaitAndReturn

\* ========================== the bridge's event-type listeners
\* The two modules that listen to the video events.
VideoModules == {"Camera", "Video"}

\* The event types both listen to, in the order they register.
ListenedTypes == <<"GetNativeTexture", "VideoTransferSpeed", "VideoDataRecv">>

\* The zero value of token.Token, which the fields hold before Start and
\* which comes back with an error.
ZeroToken == 0

\* The registry after the RemoveEventTypeListener calls that succeeded: the
\* first `done` of the three, in the order of ListenedTypes.
AfterRemovals(registered, fields, done) ==
  registered \ {<<ListenedTypes[i], fields[i]>> : i \in 1..done}

\* No Start is in progress.
NotStarting == <<"none", 0>>

\* ================================================ module/camera: Camera
\* The video callbacks tried; "nil" is the nil VideoCallback.
VideoCallbacks == {"vc"}

\* The tokens a caller may hold: those generated so far, and 0, which the
\* generator never returns.
TokensHeld == 0..tg

\* token.Generator.Next(): a token not returned before.
TokenNext(last) == last + 1

\* len(c.callbacks)
LenCallbacks(cbs) == Cardinality(DOMAIN cbs)

\* The map without the entry of a token.
Delete(cbs, t) == [u \in (DOMAIN cbs) \ {t} |-> cbs[u]]

\* The map with one more entry.
Store(cbs, t, vc) ==
  [u \in (DOMAIN cbs) \cup {t} |-> IF u = t THEN vc ELSE cbs[u]]

\* What a call leaves in the log: the size of the table before and after,
\* the event it handed to SendEvent ("none" for no send), whether that send
\* succeeded, the token it was about and whether it returned an error.
LogEntry(o, before, after, event, sendOk, t, failed) ==
  [op |-> o, before |-> before, after |-> after, event |-> event,
   sendOk |-> sendOk, token |-> t, failed |-> failed]

\* The application goroutine, as against the goroutines of `go vc(rgb)`,
\* one per frame and token.
App == <<"app">>
Goroutines == (1..MaxFrames) \X (1..MaxCameraCalls)

\* What a video callback does when it runs: return at once, or call the
\* Camera.
CameraCalls == {"Add", "Remove", "Stop"}
Intents == {"none"} \cup CameraCalls

\* onVideoDataRecv is not running.
NoDispatch == 0

\* The calls goroutines spawned so far are still to make.
Reserved == Cardinality({g \in Goroutines : pending[g] \in CameraCalls})

\* One more call of the Camera may be started.
CallsLeft == Len(camLog) + Reserved < MaxCameraCalls

\* The caller is making the call o: the application makes any when it is
\* not inside a Start, a callback goroutine the one it is there for.
Calls(caller, o) ==
  IF caller = App THEN CallsLeft /\ starting = NotStarting
  ELSE pending[caller] = o

\* The call returns to the caller; a callback returns with it.
Returns(caller) ==
  pending' = IF caller = App THEN pending
             ELSE [pending EXCEPT ![caller] = "done"]

\* c.m.Lock() is granted: no goroutine holds the read lock (a goroutine
\* holding the write lock holds it within one action).
LockGranted == readers = 0

CameraInit ==
  /\ callbacks = <<>>
  /\ tg = 0
  /\ camLog = <<>>
  /\ readers = 0
  /\ dispatch = NoDispatch
  /\ frames = <<>>
  /\ invoked = [g \in Goroutines |-> 0]
  /\ pending = [g \in Goroutines |-> "idle"]

\* AddVideoCallback sending StartVideo for every callback added.
AddVideoCallbackAlwaysStarts(caller) ==
  /\ Calls(caller, "Add")
  /\ \E vc \in VideoCallbacks \cup {"nil"}, sendOk \in BOOLEAN :
       IF vc = "nil"
       THEN /\ sendOk
            /\ camLog' = Append(camLog,
                 LogEntry("Add", LenCallbacks(callbacks),
                          LenCallbacks(callbacks), "none", TRUE, 0, TRUE))
            /\ UNCHANGED <<callbacks, tg>>
       ELSE LET t == TokenNext(tg)
                after == Store(callbacks, t, vc)
            IN /\ LockGranted
               /\ tg' = t
               /\ callbacks' = after
               /\ camLog' = Append(camLog,
                    LogEntry("Add", LenCallbacks(callbacks),
                             LenCallbacks(after), "StartVideo", sendOk, t,
                             ~sendOk))
  /\ Returns(caller)
  /\ UNCHANGED <<readers, dispatch, frames, invoked, cameraRest>>

\* AddVideoCallback(vc) (example.go:170-191): the nil test, then the rest
\* under c.m.
AddVideoCallback(caller) ==
  /\ Calls(caller, "Add")
  /\ \E vc \in VideoCallbacks \cup {"nil"}, sendOk \in BOOLEAN :
       IF vc = "nil"
       THEN /\ sendOk
            /\ camLog' = Append(camLog,
                 LogEntry("Add", LenCallbacks(callbacks),
                          LenCallbacks(callbacks), "none", TRUE, 0, TRUE))
            /\ UNCHANGED <<callbacks, tg>>
       ELSE LET t == TokenNext(tg)
                after == Store(callbacks, t, vc)
            IN /\ LockGranted
               /\ tg' = t
               /\ callbacks' = after
               /\ IF LenCallbacks(after) = 1
                  THEN camLog' = Append(camLog,
                         LogEntry("Add", LenCallbacks(callbacks), 1,
                                  "StartVideo", sendOk, t, ~sendOk))
                  ELSE /\ sendOk
                       /\ camLog' = Append(camLog,
                            LogEntry("Add", LenCallbacks(callbacks),
                                     LenCallbacks(after), "none", TRUE, t,
                                     FALSE))
  /\ Returns(caller)
  /\ UNCHANGED <<readers, dispatch, frames, invoked, cameraRest>>

\* RemoveVideoCallback not waiting for c.m.
RemoveVideoCallbackUnlocked(caller) ==
  /\ Calls(caller, "Remove")
  /\ \E t \in TokensHeld, sendOk \in BOOLEAN :
       IF t \notin DOMAIN callbacks
       THEN /\ sendOk
            /\ camLog' = Append(camLog,
                 LogEntry("Remove", LenCallbacks(callbacks),
                          LenCallbacks(callbacks), "none", TRUE, t, TRUE))
            /\ UNCHANGED callbacks
       ELSE LET after == Delete(callbacks, t)
            IN /\ callbacks' = after
               /\ IF LenCallbacks(after) = 0
                  THEN camLog' = Append(camLog,
                         LogEntry("Remove", LenCallbacks(callbacks), 0,
                                  "StopVideo", sendOk, t, ~sendOk))
                  ELSE /\ sendOk
                       /\ camLog' = Append(camLog,
                            LogEntry("Remove", LenCallbacks(callbacks),
                                     LenCallbacks(after), "none", TRUE, t,
                                     FALSE))
  /\ Returns(caller)
  /\ UNCHANGED <<tg, readers, dispatch, frames, invoked, cameraRest>>

\* RemoveVideoCallback(t) (example.go:195-215), under c.m.
RemoveVideoCallback(caller) ==
  /\ Calls(caller, "Remove")
  /\ LockGranted
  /\ \E t \in TokensHeld, sendOk \in BOOLEAN :
       IF t \notin DOMAIN callbacks
       THEN /\ sendOk
            /\ camLog' = Append(camLog,
                 LogEntry("Remove", LenCallbacks(callbacks),
                          LenCallbacks(callbacks), "none", TRUE, t, TRUE))
            /\ UNCHANGED callbacks
       ELSE LET after == Delete(callbacks, t)
            IN /\ callbacks' = after
               /\ IF LenCallbacks(after) = 0
                  THEN camLog' = Append(camLog,
                         LogEntry("Remove", LenCallbacks(callbacks), 0,
                                  "StopVideo", sendOk, t, ~sendOk))
                  ELSE /\ sendOk
                       /\ camLog' = Append(camLog,
                            LogEntry("Remove", LenCallbacks(callbacks),
                                     LenCallbacks(after), "none", TRUE, t,
                                     FALSE))
  /\ Returns(caller)
  /\ UNCHANGED <<tg, readers, dispatch, frames, invoked, cameraRest>>

\* What Camera.Stop leaves alone besides fields of the Camera and the
\* listeners of the bridge.
stopRest == <<connVars, histVars, resVars, tagVars, regVars, clientVars,
              videoVars, textureVars, gunVars>>

\* Camera.Stop() (example.go:360-393): under c.m a table that is not empty
\* is replaced by an empty one and StopVideo is sent; after c.m.Unlock() the
\* three RemoveEventTypeListener calls and BaseModule.Stop(), up to the
\* first step that fails.
Stop(caller) ==
  /\ Calls(caller, "Stop")
  /\ LockGranted
  /\ \E sendOk \in BOOLEAN, done \in 0..Len(ListenedTypes),
        baseOk \in BOOLEAN :
       LET failed == ~sendOk \/ done < Len(ListenedTypes) \/ ~baseOk
       IN /\ ~sendOk => done = 0
          /\ done < Len(ListenedTypes) => baseOk
          /\ IF LenCallbacks(callbacks) > 0
             THEN /\ callbacks' = <<>>
                  /\ camLog' = Append(camLog,
                       LogEntry("Stop", LenCallbacks(callbacks), 0,
                                "StopVideo", sendOk, ZeroToken, failed))
             ELSE /\ sendOk
                  /\ UNCHANGED callbacks
                  /\ camLog' = Append(camLog,
                       LogEntry("Stop", 0, 0, "none", TRUE, ZeroToken,
                                failed))
          /\ evRegistry' = AfterRemovals(evRegistry, evTokens["Camera"], done)
  /\ Returns(caller)
  /\ UNCHANGED <<tg, readers, dispatch, frames, invoked>>
  /\ UNCHANGED <<evNext, evTokens, starting, addedByCall, startRet, nStarts>>
  /\ UNCHANGED stopRest

\* The tokens for which a RemoveVideoCallback call has returned.
RemoveReturned ==
  {camLog[i].token : i \in {j \in 1..Len(camLog) : camLog[j].op = "Remove"}}

\* onVideoDataRecv up to c.m.RLock() (example.go:413-416). The table as it
\* is now and the tokens removed so far are kept with the frame.
onVideoDataRecvRLock ==
  /\ dispatch = NoDispatch
  /\ Len(frames) < MaxFrames
  /\ readers' = readers + 1
  /\ dispatch' = Len(frames) + 1
  /\ frames' = Append(frames, [view |-> DOMAIN callbacks,
                               gone |-> RemoveReturned,
                               visited |-> {},
                               complete |-> FALSE])
  /\ UNCHANGED <<callbacks, tg, camLog, invoked, pending, cameraRest>>

\* One iteration of `for _, vc := range c.callbacks { go vc(rgb) }`
\* (example.go:418-420): an entry of the table not visited yet gets its
\* goroutine.
onVideoDataRecvGo ==
  /\ dispatch # NoDispatch
  /\ \E t \in (DOMAIN callbacks) \ frames[dispatch].visited :
       /\ frames' = [frames EXCEPT ![dispatch].visited = @ \cup {t}]
       /\ invoked' = [invoked EXCEPT ![<<dispatch, t>>] = @ + 1]
       /\ \E what \in Intents :
            /\ what \in CameraCalls => CallsLeft
            /\ pending' = [pending EXCEPT ![<<dispatch, t>>] = what]
  /\ UNCHANGED <<callbacks, tg, camLog, readers, dispatch, cameraRest>>

\* onVideoDataRecv returning with the read lock held.
onVideoDataRecvReturnsLocked ==
  /\ dispatch # NoDispatch
  /\ (DOMAIN callbacks) \ frames[dispatch].visited = {}
  /\ frames' = [frames EXCEPT ![dispatch].complete = TRUE]
  /\ dispatch' = NoDispatch
  /\ UNCHANGED <<callbacks, tg, camLog, readers, invoked, pending,
                 cameraRest>>

\* The loop is over: c.m.RUnlock() and return (example.go:422-423)
onVideoDataRecvRUnlock ==
  /\ dispatch # NoDispatch
  /\ (DOMAIN callbacks) \ frames[dispatch].visited = {}
  /\ readers' = readers - 1
  /\ frames' = [frames EXCEPT ![dispatch].complete = TRUE]
  /\ dispatch' = NoDispatch
  /\ UNCHANGED <<callbacks, tg, camLog, invoked, pending, cameraRest>>

\* A video callback that calls nothing of the Camera returns.
VideoCallbackReturns(g) ==
  /\ pending[g] = "none"
  /\ pending' = [pending EXCEPT ![g] = "done"]
  /\ UNCHANGED <<callbacks, tg, camLog, readers, dispatch, frames, invoked,
                 cameraRest>>

\* A step of the application or of a video callback.
CameraCall ==
  \E caller \in {App} \cup Goroutines :
    AddVideoCallback(caller) \/ RemoveVideoCallback(caller) \/ Stop(caller)

\* A step of onVideoDataRecv.
VideoDataRecvStep ==
  onVideoDataRecvRLock \/ onVideoDataRecvGo \/ onVideoDataRecvRUnlock

CameraNext ==
  \/ CameraCall
  \/ VideoDataRecvStep
  \/ \E g \in Goroutines : VideoCallbackReturns(g)


\* ================================== module/camera: Camera.GLTextureData
\* The values of value.GLTextureData tried, by a number that stands for the
\* fields; ZeroTexture is value.GLTextureData{}.
ZeroTexture == 0
TextureValues == ZeroTexture..7

\* The data of a GetNativeTexture event: text that is no JSON of a
\* GLTextureData, or the JSON of one of the values.
TextureEvents == {<<"malformed">>} \cup {<<"json", v>> : v \in TextureValues}

\* json.Unmarshal(data, &glTextureData) on the zero value: an error, or the
\* value the JSON stands for.
UnmarshalTextureOk(data) == data[1] = "json"
UnmarshalTexture(data) ==
  IF UnmarshalTextureOk(data) THEN data[2] ELSE ZeroTexture

\* atomic.Pointer[value.GLTextureData] before any Store.
NilPointer == <<"nil">>
\* &glTextureData
AddressOf(v) == <<"ptr", v>>
\* *glTextureData of a pointer that is not nil
Deref(ptr) == ptr[2]

\* What a call did, with the pointer it loaded: it returned a value and an
\* error, or the run-time panicked on a nil pointer dereference. NoReturn
\* before the first call.
NoReturn == <<"none">>
Return(loaded, v, err) == <<"return", loaded, v, err>>
Panic(loaded) == <<"panic", loaded>>
Panicked == glRet[1] = "panic"

TextureInit ==
  /\ glTextureData = NilPointer
  /\ glEvent = <<"none">>
  /\ glRet = NoReturn

\* onGetNativeTexture(data, dataType) (example.go:395-407)
onGetNativeTexture ==
  /\ ~Panicked
  /\ \E data \in TextureEvents :
       /\ glEvent' = data
       /\ glTextureData' = IF UnmarshalTextureOk(data)
                           THEN AddressOf(UnmarshalTexture(data))
                           ELSE glTextureData
  /\ UNCHANGED <<glRet, textureRest>>

\* GLTextureData() (example.go:349-357): `return *glTextureData, ...` is
\* evaluated also when the pointer loaded is nil.
GLTextureData ==
  /\ ~Panicked
  /\ glRet' =
       IF glTextureData = NilPointer
       THEN Panic(glTextureData)
       ELSE IF Deref(glTextureData) = ZeroTexture
            THEN Return(glTextureData, Deref(glTextureData),
                        "no GLTextureData available")
            ELSE Return(glTextureData, Deref(glTextureData), "nil")
  /\ UNCHANGED <<glTextureData, glEvent, textureRest>>

TextureNext == onGetNativeTexture \/ GLTextureData

\* ===================================================== sdk2/module/gun
\* The gun types a caller passes: the two of the package and another value.
GunTypes == {"TypeBead", "TypeInfrared", "other"}

\* No Fire call is between its `go` statement and its send.
NotFiring == 0

FireCalls == 1..MaxFires

GunInit ==
  /\ nFires = 0
  /\ firing = NotFiring
  /\ offPc = [i \in FireCalls |-> "none"]
  /\ gunLog = <<>>
  /\ gunRet = [i \in FireCalls |-> "none"]

\* Fire(typ) (gun.go:58-69). TypeBead: fireBead(1) performs the action and
\* returns its error (gun.go:85-88). TypeInfrared: fireInfrared starts the
\* goroutine that will switch the firing off (gun.go:91-96). Another type:
\* the error.
Fire ==
  /\ firing = NotFiring
  /\ nFires < MaxFires
  /\ nFires' = nFires + 1
  /\ \E typ \in GunTypes :
       CASE typ = "TypeBead" ->
              \E ok \in BOOLEAN :
                /\ gunLog' = Append(gunLog,
                     <<nFires + 1, "WaterGunFireWithTimes", 1, ok>>)
                /\ gunRet' = [gunRet EXCEPT ![nFires + 1] =
                                IF ok THEN "nil" ELSE "err"]
                /\ UNCHANGED <<firing, offPc>>
         [] typ = "TypeInfrared" ->
              /\ offPc' = [offPc EXCEPT ![nFires + 1] = "sleeping"]
              /\ firing' = nFires + 1
              /\ UNCHANGED <<gunLog, gunRet>>
         [] OTHER ->
              /\ gunRet' = [gunRet EXCEPT ![nFires + 1] = "invalid gun type"]
              /\ UNCHANGED <<firing, offPc, gunLog>>
  /\ UNCHANGED gunRest

\* return g.ub.DirectSendKeyValue(key.KeyRobomasterWaterGunWaterGunFire,
\* uint64(1)) (gun.go:98)
fireInfraredSendOn ==
  /\ firing # NotFiring
  /\ \E ok \in BOOLEAN :
       /\ gunLog' = Append(gunLog, <<firing, "WaterGunFire", 1, ok>>)
       /\ gunRet' = [gunRet EXCEPT ![firing] = IF ok THEN "nil" ELSE "err"]
  /\ firing' = NotFiring
  /\ UNCHANGED <<nFires, offPc, gunRest>>

\* time.Sleep(200 * time.Millisecond) returns in the goroutine (gun.go:93).
\* Nothing but the time the caller takes to reach its send orders this
\* against it.
fireInfraredSleepOver(i) ==
  /\ offPc[i] = "sleeping"
  /\ offPc' = [offPc EXCEPT ![i] = "awake"]
  /\ UNCHANGED <<nFires, firing, gunLog, gunRet, gunRest>>

\* g.ub.DirectSendKeyValue(key.KeyRobomasterWaterGunWaterGunFire, uint64(0))
\* in the goroutine, its error not read (gun.go:95)
fireInfraredSendOff(i) ==
  /\ offPc[i] = "awake"
  /\ \E ok \in BOOLEAN :
       gunLog' = Append(gunLog, <<i, "WaterGunFire", 0, ok>>)
  /\ offPc' = [offPc EXCEPT ![i] = "done"]
  /\ UNCHANGED <<nFires, firing, gunRet, gunRest>>

\* A step of a switch-off goroutine.
SwitchOffStep ==
  \E i \in FireCalls : fireInfraredSleepOver(i) \/ fireInfraredSendOff(i)

GunNext == Fire \/ fireInfraredSendOn \/ SwitchOffStep

\* ============ module/camera Camera.Start, sdk2/internal/manager Video.Start
\* The steps of Start in program order: Camera.Start (example.go:145-163)
\* and Video.Start (video.go:33-57).
AddListenerSteps ==
  [i \in 1..Len(ListenedTypes) |-> <<"AddEventTypeListener", ListenedTypes[i]>>]
ModuleStartSteps(mod) ==
  IF mod = "Camera"
  THEN AddListenerSteps \o << <<"BaseModule.Start", "">> >>
  ELSE AddListenerSteps \o << <<"SendEvent", "StartVideo">>,
                              <<"SendEvent", "GetNativeTexture">> >>

StartInit ==
  /\ evRegistry = {}
  /\ evNext = ZeroToken
  /\ evTokens = [mod \in VideoModules |->
                   [i \in 1..Len(ListenedTypes) |-> ZeroToken]]
  /\ starting = NotStarting
  /\ addedByCall = {}
  /\ startRet = "none"
  /\ nStarts = 0

\* Start is entered (example.go:142-143, video.go:31-32)
ModuleStart(mod) ==
  /\ starting = NotStarting
  /\ nStarts < MaxStarts
  /\ nStarts' = nStarts + 1
  /\ starting' = <<mod, 1>>
  /\ addedByCall' = {}
  /\ startRet' = "running"
  /\ UNCHANGED <<evRegistry, evNext, evTokens, startRest>>

\* One step of Start, which succeeds or fails: an AddEventTypeListener
\* registers the listener with the bridge and its token goes to the field;
\* any error is returned at once (example.go:145-163, video.go:33-62)
ModuleStartStep ==
  /\ starting # NotStarting
  /\ LET mod == starting[1]
         i == starting[2]
         step == ModuleStartSteps(mod)[i]
     IN \E ok \in BOOLEAN :
          /\ IF step[1] = "AddEventTypeListener"
             THEN IF ok
                  THEN /\ evNext' = evNext + 1
                       /\ evRegistry' = evRegistry \cup {<<step[2], evNext + 1>>}
                       /\ evTokens' = [evTokens EXCEPT ![mod][i] = evNext + 1]
                       /\ addedByCall' =
                            addedByCall \cup {<<step[2], evNext + 1>>}
                  ELSE /\ evTokens' = [evTokens EXCEPT ![mod][i] = ZeroToken]
                       /\ UNCHANGED <<evNext, evRegistry, addedByCall>>
             ELSE UNCHANGED <<evNext, evRegistry, evTokens, addedByCall>>
          /\ IF ~ok
             THEN startRet' = "err" /\ starting' = NotStarting
             ELSE IF i = Len(ModuleStartSteps(mod))
                  THEN startRet' = "nil" /\ starting' = NotStarting
                  ELSE starting' = <<mod, i + 1>> /\ UNCHANGED startRet
  /\ UNCHANGED <<nStarts, startRest>>

\* Video.Stop() (video.go:88-112): the StopVideo event, then the three
\* RemoveEventTypeListener calls, up to the first that fails.
VideoStop ==
  /\ starting = NotStarting
  /\ \E sendOk \in BOOLEAN, done \in 0..Len(ListenedTypes) :
       evRegistry' = IF sendOk
                     THEN AfterRemovals(evRegistry, evTokens["Video"], done)
                     ELSE evRegistry
  /\ UNCHANGED <<evNext, evTokens, starting, addedByCall, startRet, nStarts,
                 startRest>>

StartNext ==
  \/ \E mod \in VideoModules : ModuleStart(mod)
  \/ ModuleStartStep
  \/ VideoStop
  \/ Stop(App)

\* ------------------------------------------------------- specification
CallerStep ==
  \/ StartLock \/ StartAddKeyListener \/ StartUnlock \/ StartFind
  \/ StartSendACK \/ StartSendClose \/ StartSendSetIP \/ StartSendSetPort
  \/ StartSendOpen \/ StopSendClose \/ StopRemoveKeyListener
  \/ WaitCall \/ WaitLock \/ WaitSnapshot \/ WaitTest \/ WaitReacquire
  \/ WaitUnlock

CallbackStep ==
  CallbackCheck \/ CallbackLock \/ CallbackSet \/ CallbackUnlock

ConnNext ==
  \/ CallStart \/ CallStop \/ CallerStep
  \/ Deliver \/ CallbackStep \/ SpuriousWake
  \/ ConnectedLock \/ ConnectedRead

Init == ConnInit /\ ResultInit /\ TagInit /\ RegInit /\ ClientInit
        /\ VideoInit
        /\ CameraInit
        /\ TextureInit
        /\ GunInit
        /\ StartInit

Spec == Init /\ [][ConnNext]_vars

\* The Go scheduler runs every runnable goroutine and sync.Mutex hands the
\* lock to a starving waiter, so a step of Start, Stop or the callback that
\* is enabled again and again is taken.  Nothing obliges the bridge to
\* deliver a callback or the application to make a call.
FairSpec ==
  /\ Spec
  /\ SF_vars(CallerStep)
  /\ SF_vars(CallbackStep)
  /\ WF_vars(ConnectedRead)

\* Video.SetVideoResolution alone, called again and again.
VideoSpec == Init /\ [][VideoNext]_vars

\* The same with the goroutines scheduled: the caller runs while it can, and
\* a callback the bridge holds is invoked.
FairVideoSpec ==
  /\ VideoSpec
  /\ WF_vars(SetKeyValue)
  /\ WF_vars(WaitAndReturn)
  /\ WF_vars(CompletionCallback)

\* The Camera alone: video callbacks added and removed in any order while
\* frames arrive.
CameraSpec == Init /\ [][CameraNext]_vars

\* The same with the goroutines of the program scheduled: onVideoDataRecv
\* goes on while it can, and while video callbacks can take a step one of
\* them does (less than the Go scheduler gives, which runs each of them).
\* Nothing obliges the application to call or the bridge to deliver a
\* frame.
FairCameraSpec ==
  /\ CameraSpec
  /\ WF_vars(onVideoDataRecvGo \/ onVideoDataRecvRUnlock)
  /\ WF_vars(\E g \in Goroutines :
               \/ AddVideoCallback(g) \/ RemoveVideoCallback(g) \/ Stop(g)
               \/ VideoCallbackReturns(g))

\* The texture data of the Camera alone: events received and the data read.
TextureSpec == Init /\ [][TextureNext]_vars

\* The Gun alone: Fire called again and again, the goroutines it starts
\* running beside it.
GunSpec == Init /\ [][GunNext]_vars

\* The same with every goroutine scheduled.
FairGunSpec ==
  /\ GunSpec
  /\ WF_vars(fireInfraredSendOn)
  /\ \A i \in FireCalls :
       WF_vars(fireInfraredSleepOver(i) \/ fireInfraredSendOff(i))

\* Camera and Video started and stopped by one goroutine.
StartSpec == Init /\ [][StartNext]_vars

\* The Client alone: Start and Stop called in any order.
ClientSpec == Init /\ [][ClientNext]_vars

\* The bridge wrapper alone: SetEventCallback and Get called one after the
\* other.
RegSpec == Init /\ [][RegNext]_vars

\* callbackHandler alone, called with tag after tag.
TagSpec == Init /\ [][TagNext]_vars

\* The Result under test alone: built, rebuilt and modified at will.
ResultSpec == Init /\ [][ResultNext]_vars

\* ------------------------------------------------------------- claims
\* The connection events of the call in progress, in the order sent.
EventsSent == SelectSeq(stageLog, LAMBDA e : e[1] = "event")

\* Position in stageLog of the first stage of the given kind (0: none).
FirstOf(kind) ==
  IF \E i \in 1..Len(stageLog) : stageLog[i][1] = kind
  THEN CHOOSE i \in 1..Len(stageLog) :
         /\ stageLog[i][1] = kind
         /\ \A j \in 1..(i - 1) : stageLog[j][1] # kind
  ELSE 0

\* C1: in every execution of Start the connection events sent form a prefix
\* of (close, set-IP, set-port, open); an event is sent only after the one
\* before it succeeded; and no event is sent before Find returned a beacon
\* and SendACK was called.
C1_StartEventOrder ==
  op = "Start" =>
    /\ Len(EventsSent) <= Len(EventOrder)
    /\ \A i \in 1..Len(EventsSent) : EventsSent[i][2] = EventOrder[i]
    /\ \A i \in 1..(Len(EventsSent) - 1) : EventsSent[i][3]
    /\ EventsSent # <<>> =>
         /\ FirstOf("find") > 0
         /\ stageLog[FirstOf("find")][3]
         /\ FirstOf("find") < FirstOf("ack")
         /\ FirstOf("ack") < FirstOf("event")

\* C1 witness: a Start that sent all four events.
C1_Witness ==
  /\ op = "Start"
  /\ Len(EventsSent) = 4
  /\ \A i \in 1..4 : EventsSent[i][3]

\* C2: whenever Start returns nil, cm.connected was true when the status
\* wait inside it unblocked.
C2_StartReturnsConnected ==
  /\ (op = "Start" /\ pc = "w_unlock") => connected
  /\ (op = "Start" /\ ret = "nil") => waitExit = "true"

\* C3: a wait called while the status is false does not return before the
\* listener has written true, and a waiter never leaves the loop while
\* cm.connected equals the captured value.
C3_WaitUnblocksOnChange ==
  pc = "w_unlock" =>
    /\ connected # current
    /\ (waitEntry = FALSE => sawTrue)

\* C3 witness: a wait called with the status false was woken in vain, waited
\* again and then returned.
C3_Witness ==
  /\ pc = "w_unlock"
  /\ waitEntry = FALSE
  /\ current = FALSE
  /\ futile

\* C4: once Start has sent the open event and the listener has delivered
\* exactly one transition, false -> true, Start returns unless a further
\* callback is delivered.
C4_NoMissedWakeup ==
  (/\ op = "Start"
   /\ pc \in {"w_call", "w_lock", "w_snap", "w_test", "w_blocked", "w_woken"}
   /\ delivSince = 1 /\ transSince = 1 /\ cbPc = "idle" /\ connected)
    ~> (pc = "ret" \/ delivSince > 1)

\* C5: whenever Stop returns nil, the close event was sent, then the wait
\* unblocked with cm.connected false, then the listener was removed; and the
\* listener is never removed before the close event is sent.
C5_StopOrder ==
  /\ (op = "Stop" /\ ret = "nil") =>
       /\ stageLog = << <<"event", subTypeConnectionClose, TRUE>>,
                        <<"unlisten", -1, TRUE>> >>
       /\ waitExit = "false"
       /\ removed
  /\ (op = "Stop" /\ removed) =>
       stageLog[1] = <<"event", subTypeConnectionClose, TRUE>>

\* C6: Start and Stop always return: when no callback is delivered after
\* the open (close) event was sent, the status wait still ends.
C6_CallsReturn ==
  (op \in {"Start", "Stop"} /\ pc = "w_call")
    ~> (pc = "ret" \/ delivSince > 0)

\* C7: when Start returns an error, the listener this call registered is
\* not registered any more.
C7_FailedStartRemovesListener ==
  (op = "Start" /\ pc = "ret" /\ ret = "err") => regToken \notin listeners

\* A goroutine is about to read or write cm.connected.
AtConnectedAccess(who) ==
  CASE who = "caller" -> pc \in {"w_snap", "w_test"}
    [] who = "reader" -> rdPc = "read"
    [] who = "callback" -> (cbPc = "check" /\ IsBool(cbVal)) \/ cbPc = "set"

\* C8: every read and write of cm.connected happens with cm.m held by the
\* goroutine doing it, and only connectionStatusChanged writes it.
C8_ConnectedGuarded ==
  /\ [](\A who \in {"caller", "reader", "callback"} :
          AtConnectedAccess(who) => m = who)
  /\ [][connected' # connected => cbPc = "set"]_vars

\* C9: no stage of Start runs after a stage that failed, and a Start with a
\* failed stage returns an error.
C9_NoStageFailureDropped ==
  op = "Start" =>
    /\ \A i \in 1..(Len(stageLog) - 1) : stageLog[i][3]
    /\ (pc = "ret" /\ \E i \in 1..Len(stageLog) : ~stageLog[i][3])
         => ret = "err"

\* C10: for every Result, however built and whatever setters were called,
\* Succeeded() is true exactly when ErrorCode() is 0.
C10_SucceededIffNoError ==
  Succeeded(res) <=> (ErrorCode(res) = 0)

\* C10 witness: a Result decoded from a failing envelope whose code a
\* setter cleared afterwards: it succeeded although it still carries an
\* error description.
C10_Witness ==
  /\ built
  /\ Succeeded(res)
  /\ ErrorDesc(res) = "value field not found"

\* ---- envelopes as the claims speak of them, read off the JSON text
\* The input is a JSON object every integer member of which decodes, and
\* its Key is in the catalog.
WellFormedKnown(data) ==
  /\ data[1] = "json"
  /\ data[2][1] = "obj"
  /\ \A n \in {"Key", "Tag", "Error"} :
       HasMember(data[2][2], n) => Member(data[2][2], n)[1] \in {"num", "null"}
  /\ HasMember(data[2][2], "Key") /\ Member(data[2][2], "Key")[1] = "num"
  /\ Member(data[2][2], "Key")[2] \in KnownKeys
  /\ \A n \in {"Key", "Tag"} :
       (HasMember(data[2][2], n) /\ Member(data[2][2], n)[1] = "num")
         => Member(data[2][2], n)[2] >= 0

\* The envelope's Value member as JSON (null when missing).
ValueOf(data) ==
  IF HasMember(data[2][2], "Value") THEN Member(data[2][2], "Value")
  ELSE JsonNull

\* The JSON value is an object with a "value" member.
IsWrapper(j) == j[1] = "obj" /\ HasMember(j[2], "value")

\* {"Key":5,"Tag":42,"Error":0,"Value":{"value":true}}
ExampleOk ==
  <<"json", Envelope(<<"num", 5>>, <<"num", 42>>, <<"num", 0>>,
                     Obj(<< <<"value", <<"bool", TRUE>> >> >>))>>

\* C11: NewFromJSON takes exactly one {"value": ...} wrapper off: for a
\* well-formed envelope with a known key, a Value that is an object with a
\* "value" member gives that member as it is (an inner wrapper stays), a
\* Value that is no object gives Value itself; the example envelope gives
\* Succeeded, Tag 42 and the value true.
C11_UnwrapsOneWrapper ==
  (input # NoInput /\ WellFormedKnown(input)) =>
    /\ IsWrapper(ValueOf(input)) =>
         /\ Value(res) = DecodeAny(Member(ValueOf(input)[2], "value"))
         /\ IsWrapper(Member(ValueOf(input)[2], "value")) =>
              Value(res)[1] = "map" /\ HasMember(Value(res)[2], "value")
    /\ ValueOf(input)[1] # "obj" => Value(res) = DecodeAny(ValueOf(input))
    /\ input = ExampleOk =>
         Succeeded(res) /\ Tag(res) = 42 /\ Value(res) = <<"bool", TRUE>>

\* C11 witness: the Result decoded from a well-formed envelope whose Value
\* is a wrapper inside a wrapper.
C11_Witness ==
  /\ input # NoInput
  /\ WellFormedKnown(input)
  /\ IsWrapper(ValueOf(input))
  /\ IsWrapper(Member(ValueOf(input)[2], "value"))
  /\ Value(res)[1] = "map"

\* The envelope names a key the catalog does not hold.
UnknownKeyEnvelope(data) ==
  /\ data[1] = "json"
  /\ data[2][1] = "obj"
  /\ HasMember(data[2][2], "Key")
  /\ Member(data[2][2], "Key")[1] = "num"
  /\ Member(data[2][2], "Key")[2] \notin KnownKeys

\* The envelope's Value is an object without a "value" member.
UnwrappedObjectEnvelope(data) ==
  /\ data[1] = "json"
  /\ data[2][1] = "obj"
  /\ ValueOf(data)[1] = "obj"
  /\ ~HasMember(ValueOf(data)[2], "value")

\* C12: for empty or nil data, malformed JSON, an envelope with a key the
\* catalog does not hold and an envelope whose Value is an object without a
\* "value" member, NewFromJSON returns a Result that did not succeed, has a
\* non-empty error description and a nil key.
C12_ErrorsInsideResult ==
  (/\ input # NoInput
   /\ \/ input[1] \in {"empty", "malformed"}
      \/ UnknownKeyEnvelope(input)
      \/ UnwrappedObjectEnvelope(input))
    => /\ built
       /\ ~Succeeded(res)
       /\ ErrorDesc(res) # ""
       /\ Key(res) = NilKey

\* C12 witness: the Result decoded from an envelope with a known key and a
\* Value object that has no "value" member.
C12_Witness ==
  /\ input # NoInput
  /\ WellFormedKnown(input)
  /\ UnwrappedObjectEnvelope(input)
  /\ built
  /\ ErrorDesc(res) = "value field not found"

\* A well-formed envelope with a known key, a Tag and an Error, whose Value
\* is of the shape <any> | {"value": <any>}.
WellFormedWithTagError(data) ==
  /\ WellFormedKnown(data)
  /\ ~UnwrappedObjectEnvelope(data)
  /\ \A n \in {"Tag", "Error"} :
       HasMember(data[2][2], n) /\ Member(data[2][2], n)[1] = "num"

\* C13: for a well-formed envelope with a known key, Tag t and Error e the
\* Result has Tag() = t and ErrorCode() = e; with e # 0 it did not succeed
\* and has a non-empty error description (also with a null Value), with
\* e = 0 its error description is empty.
C13_TagAndErrorCarried ==
  (input # NoInput /\ WellFormedWithTagError(input)) =>
    LET t == Member(input[2][2], "Tag")[2]
        e == Member(input[2][2], "Error")[2]
    IN /\ Tag(res) = t
       /\ ErrorCode(res) = e
       /\ e # 0 => ~Succeeded(res) /\ ErrorDesc(res) # ""
       /\ e = 0 => ErrorDesc(res) = ""

\* C13 witness: the Result decoded from
\* {"Key":5,"Tag":42,"Error":7,"Value":null}.
C13_Witness ==
  /\ input = <<"json", Envelope(<<"num", 5>>, <<"num", 42>>, <<"num", 7>>,
                                JsonNull)>>
  /\ ErrorCode(res) = 7
  /\ ~Succeeded(res)

\* C14: for a data type d in {0, 1} and a sequence number s < 2^48,
\* callbackHandler reads exactly (d, s) back from the tag (d << 56) | s.
C14_TagRoundTrip ==
  (/\ handled.calls > 0
   /\ handled.d \in {Uint64(0, 0, 0, 0), Uint64(0, 0, 0, 1)}
   /\ handled.s[1] = 0)
    => /\ handled.dataType = handled.d
       /\ handled.sequence = handled.s

\* C14 witness: a tag of data type 1 with the largest 48-bit sequence
\* number was handled.
C14_Witness ==
  /\ handled.calls > 0
  /\ handled.d = Uint64(0, 0, 0, 1)
  /\ handled.s = Uint64(0, 65535, 65535, 65535)
  /\ handled.tag = Uint64(256, 65535, 65535, 65535)

\* C15: after any sequence of SetEventCallback calls has returned, the
\* handler of every event code is the callback of the last call for it
\* (none if that was nil), and the native layer holds the trampoline for a
\* code exactly when the registry holds a handler for it.
C15_LastCallbackWins ==
  (setting = NoCall /\ ~regetted) =>
    \A code \in EventCodes :
      /\ lastSet[code] # "never" => registry[code] = lastSet[code]
      /\ native[code] <=> registry[code] # "nil"

\* C15 witness: a handler was overwritten by another on one code and set
\* and cleared again on the other.
C15_Witness ==
  /\ setting = NoCall
  /\ ~regetted
  /\ lastSet[0] = "cb2" /\ registry[0] = "cb2" /\ native[0]
  /\ lastSet[1] = "nil" /\ registry[1] = "nil" /\ ~native[1]

\* C16: Client.Start on a started client returns an error and calls Start
\* on nothing; Client.Stop on a client that was never started returns an
\* error and calls Stop on nothing.
C16_MisuseRejected ==
  /\ (clientOp = "Start" /\ wasStarted) =>
       /\ clientPc = Returned
       /\ clientRet = "client already started"
       /\ clientCalls = <<>>
  /\ (clientOp = "Stop" /\ ~everStarted) =>
       /\ clientPc = Returned
       /\ clientRet = "client not started"
       /\ clientCalls = <<>>

\* C16 witness: a Start was rejected on a started client whose components
\* are all up.
C16_Witness ==
  /\ clientPc = Returned
  /\ clientOp = "Start" /\ wasStarted
  /\ clientRet = "client already started"
  /\ \A c \in Components : up[c]

\* C17: once a Client.Stop has returned nil (which takes a Client.Start that
\* returned nil before it), the client is not started any more.
C17_StopResets ==
  (clientPc = Returned /\ clientOp = "Stop" /\ clientRet = "nil"
     /\ everStarted) => ~started

\* C18: Video.SetVideoResolution returns only after the completion callback
\* was invoked, with nil exactly when the delivered Result has error code 0
\* and a non-nil error exactly when it has another code.
C18_ReturnsAfterCallback ==
  vPc = "returned" =>
    /\ completion = "invoked"
    /\ vRet = "nil" <=> ErrorCode(delivered) = 0

\* C18 witness: a call returned an error for a Result with a negative code.
C18_Witness ==
  /\ vPc = "returned"
  /\ completion = "invoked"
  /\ ErrorCode(delivered) = -1
  /\ vRet = <<"error setting video resolution", "boom">>

\* C19: every call of Video.SetVideoResolution returns, also when the
\* completion callback is never invoked.
C19_AlwaysReturns == (vPc = "set") ~> (vPc = "returned")

\* The events sent so far, in order.
VideoEventsSent ==
  SelectSeq(camLog, LAMBDA e : e.event # "none" /\ e.sendOk)

\* The number of sends of an event so far.
TimesSent(event) ==
  Len(SelectSeq(VideoEventsSent, LAMBDA e : e.event = event))

\* The log is N successful adds followed by N successful removes.
AddsThenRemoves ==
  \E n \in 1..Len(camLog) :
    /\ Len(camLog) = 2 * n
    /\ \A i \in 1..n : camLog[i].op = "Add" /\ ~camLog[i].failed
    /\ \A i \in (n + 1)..(2 * n) :
         camLog[i].op = "Remove" /\ ~camLog[i].failed

C21_FrameFanOut ==
  \A f \in 1..Len(frames) :
    /\ \A t \in 1..MaxCameraCalls :
         /\ invoked[<<f, t>>] <= 1
         /\ invoked[<<f, t>>] = 1 => t \in frames[f].view
         /\ (frames[f].complete /\ t \in frames[f].view)
              => invoked[<<f, t>>] = 1
         /\ t \in frames[f].gone => invoked[<<f, t>>] = 0
    /\ \A g \in Goroutines : pending[g] # "idle" <=> invoked[g] > 0

\* C21 witness: a frame was fanned out to the two callbacks registered.
C21_Witness ==
  \E f \in 1..Len(frames) :
    /\ frames[f].complete
    /\ frames[f].view = {1, 2}
    /\ invoked[<<f, 1>>] = 1 /\ invoked[<<f, 2>>] = 1
    /\ invoked[<<f, 3>>] = 0

\* C22: Camera.GLTextureData returns an error when no texture data or the
\* zero value is stored, and fails in no other way; it returns a nil error
\* exactly when non-zero data is stored.
C22_MissingTextureIsError ==
  glRet # NoReturn =>
    /\ ~Panicked
    /\ glRet[4] = "nil"
         <=> (glRet[2] # NilPointer /\ Deref(glRet[2]) # ZeroTexture)

\* C22, the part that holds: the calls made once an event has stored data.
C22_StoredTexture ==
  (glRet # NoReturn /\ glRet[2] # NilPointer) =>
    /\ ~Panicked
    /\ glRet[4] = "nil" <=> Deref(glRet[2]) # ZeroTexture

\* The place in the log of the send of a value for the fire key by a call,
\* 0 if there is none.
SendOf(i, value) ==
  LET at == {k \in 1..Len(gunLog) :
               /\ gunLog[k][1] = i
               /\ gunLog[k][2] = "WaterGunFire"
               /\ gunLog[k][3] = value}
  IN IF at = {} THEN 0 ELSE CHOOSE k \in at : TRUE

\* C23: the 0 of a Gun.Fire(TypeInfrared) call is never sent before the 1 of
\* the same call.
C23_OffAfterOn ==
  \A i \in FireCalls :
    SendOf(i, 0) # 0 => (SendOf(i, 1) # 0 /\ SendOf(i, 1) < SendOf(i, 0))

\* C23, the part that holds: every Gun.Fire(TypeInfrared) call sends the 1
\* and the 0 in the end, also when the send of the 1 returned an error.
C23_SwitchedOff ==
  \A i \in FireCalls :
    (offPc[i] = "sleeping") ~> (SendOf(i, 0) # 0 /\ SendOf(i, 1) # 0)

\* C24: a handler installed with SetEventCallback stays the handler of its
\* event code until SetEventCallback is called again for that code, whatever
\* calls of Get are made in between.
C24_GetKeepsHandlers ==
  setting = NoCall =>
    \A code \in EventCodes :
      lastSet[code] \in Callbacks => registry[code] = lastSet[code]

\* The calls the claim names, in its order.
ClaimedStartOrder ==
  << <<"ub", "Start">>,
     <<"cn", "Start">>, <<"cn", "WaitForConnection">>,
     <<"rb", "Start">>, <<"rb", "WaitForConnection">>,
     <<"cm", "Start">>, <<"cm", "WaitForConnection">>,
     <<"ct", "Start">>, <<"ct", "WaitForConnection">> >>
ClaimedStopOrder ==
  << <<"ct", "Stop">>, <<"cm", "Stop">>, <<"rb", "Stop">>, <<"cn", "Stop">>,
     <<"ub", "Stop">> >>

\* The calls made so far are the first of an order, and only the last of
\* them may have failed.
FollowsOrder(order) ==
  /\ Len(clientCalls) <= Len(order)
  /\ \A i \in 1..Len(clientCalls) :
       /\ <<clientCalls[i][1], clientCalls[i][2]>> = order[i]
       /\ i < Len(clientCalls) => clientCalls[i][3]

\* All the calls of an order were made and succeeded.
AllDone(order) ==
  /\ Len(clientCalls) = Len(order)
  /\ \A i \in 1..Len(clientCalls) : clientCalls[i][3]

\* C25: Client.Start starts the bridge, then Connection, Robot, Camera and
\* Controller, each after the WaitForConnection of the one before returned
\* true, and sets started only when all succeeded; Client.Stop stops
\* Controller, Camera, Robot, Connection and then the bridge, and stops at
\* the first step that fails.
C25_StartStopOrder ==
  /\ clientOp = "Start" =>
       /\ FollowsOrder(ClaimedStartOrder)
       /\ ~wasStarted => (started <=> AllDone(ClaimedStartOrder))
       /\ (clientPc = Returned /\ ~wasStarted)
            => (clientRet = "nil" <=> AllDone(ClaimedStartOrder))
  /\ clientOp = "Stop" =>
       /\ FollowsOrder(ClaimedStopOrder)
       /\ (clientPc = Returned /\ wasStarted)
            => (clientRet = "nil" <=> AllDone(ClaimedStopOrder))

\* C25 witness: a Start that went through was followed by a Stop that
\* failed at the Robot, after the Controller and the Camera were stopped.
C25_Witness ==
  /\ clientPc = Returned
  /\ clientOp = "Stop"
  /\ everStarted
  /\ clientCalls = << <<"ct", "Stop", TRUE>>, <<"cm", "Stop", TRUE>>,
                      <<"rb", "Stop", FALSE>> >>
  /\ clientRet # "nil"
  /\ up["rb"] /\ ~up["cm"]

\* The components the Client call in the log has started.
StartedByCall ==
  {c \in Components :
     \E i \in 1..Len(clientCalls) : clientCalls[i] = <<c, "Start", TRUE>>}

\* C28: when Client.Start returns an error, every component the call has
\* started is stopped, or a following Client.Stop is let through to stop
\* it.
C28_FailedStartLeavesNothingUp ==
  (clientPc = Returned /\ clientOp = "Start" /\ clientRet # "nil") =>
    \A c \in StartedByCall : ~up[c] \/ started

\* C26: an AddVideoCallback call that returned an error has left the table
\* of video callbacks as it was.
C26_FailedAddChangesNothing ==
  \A i \in 1..Len(camLog) :
    (camLog[i].op = "Add" /\ camLog[i].failed)
      => camLog[i].after = camLog[i].before

\* C27: when Camera.Start or Video.Start has returned an error, none of the
\* event-type listeners the call registered is still registered.
C27_FailedStartLeaksNoListener ==
  (starting = NotStarting /\ startRet = "err")
    => addedByCall \cap evRegistry = {}

\* C29: c.m is not held while a video callback runs, so a video callback
\* that calls AddVideoCallback, RemoveVideoCallback or Camera.Stop, or none
\* of them, returns in the end, whatever onVideoDataRecv and the other
\* callers do meanwhile: every run comes to a point after which no video
\* callback is still to return.
C29_CallbacksComplete ==
  <>[](\A g \in Goroutines : pending[g] \notin Intents)

\* C29 witness: a video callback has called Camera.Stop on a table of two
\* callbacks and returned.
C29_Witness ==
  \E g \in Goroutines :
    /\ pending[g] = "done"
    /\ camLog # <<>>
    /\ camLog[Len(camLog)].op = "Stop"
    /\ camLog[Len(camLog)].before = 2
    /\ callbacks = <<>>
====
